---- MODULE Spec2Model ----
(***************************************************************************)
(* Model of nifti_series.py: the Patient discovery engine (_select_files,  *)
(* _fetch_single_series, _fetch_single_mask, fetch_series, fetch_masks,    *)
(* fetch_all) and the aggregate queries built on the two indices.          *)
(*                                                                         *)
(* Python strings are sequences of one-character strings, so that lower(), *)
(* ==, `in` (substring) and concatenation are computed as Python computes  *)
(* them.  A Python dict is a sequence of [key, value] pairs in insertion   *)
(* order.  A path is the sequence of its components (os.path.join).        *)
(* The trace log (logs.txt) is written but never read by the program and   *)
(* is left out of the state; the warnings file is modelled.                *)
(***************************************************************************)
EXTENDS Integers, Sequences, FiniteSets, TLC

(***************************************************************************)
(* Strings                                                                 *)
(***************************************************************************)
UpperChars == <<"A","B","C","D","E","F","G","H","I","J","K","L","M",
                "N","O","P","Q","R","S","T","U","V","W","X","Y","Z">>

LowerChars == <<"a","b","c","d","e","f","g","h","i","j","k","l","m",
                "n","o","p","q","r","s","t","u","v","w","x","y","z">>

\* the lower-case letter of every upper-case letter
LowerOf == [c \in {UpperChars[i] : i \in 1..26} |->
              LowerChars[CHOOSE i \in 1..26 : UpperChars[i] = c]]

\* str.lower() on one character
LowerChar(c) == IF c \in DOMAIN LowerOf THEN LowerOf[c] ELSE c

\* str.lower()
Lower(s) == [i \in 1..Len(s) |-> LowerChar(s[i])]

\* Python `sub in s` on strings
Contains(sub, s) ==
    \E i \in 0..(Len(s) - Len(sub)) : SubSeq(s, i + 1, i + Len(sub)) = sub

\* concatenation of a sequence of sequences
RECURSIVE Flatten(_)
Flatten(ss) == IF ss = <<>> THEN <<>> ELSE Head(ss) \o Flatten(Tail(ss))

\* the set of elements of a sequence
Range(s) == {s[i] : i \in 1..Len(s)}

(***************************************************************************)
(* Module-level configuration                                              *)
(***************************************************************************)
ADC == <<"a","d","c">>

DWI == <<"d","w","i">>

\* a kind that no call of the model fetches
T2 == <<"t","2">>

\* series_to_fetch = ['adc', 'dwi']
series_to_fetch == <<ADC, DWI>>

\* default of the file_extension parameter
file_extension == <<".","n","i","i",".","g","z">>

\* exceptions=None
NoExceptions == [none |-> TRUE, words |-> <<>>]

\* exceptions=[...]
Exc(ws) == [none |-> FALSE, words |-> ws]

\* a keyword configuration with the defaults of _fetch_single_series
DefaultKwargs ==
    [warnings |-> TRUE, exceptions |-> NoExceptions,
     full_match |-> FALSE, try_full_match |-> FALSE]

\* mask_config = {'full_match': True}
mask_config == [DefaultKwargs EXCEPT !.full_match = TRUE]

\* series_config = {'try_full_match': True}
series_config == [DefaultKwargs EXCEPT !.try_full_match = TRUE]

(***************************************************************************)
(* Series, Mask and None                                                   *)
(***************************************************************************)
\* Python None in a position that otherwise holds a Series or a Mask
NoneObj == [none |-> TRUE, series_type |-> <<>>, path |-> <<>>, doctor |-> <<>>]

\* Series(series_type, path); a Series has no doctor attribute
Series(series_type, path) ==
    [none |-> FALSE, series_type |-> series_type, path |-> path, doctor |-> <<>>]

\* Mask(series_type, path, doctor)
Mask(series_type, path, doctor) ==
    [none |-> FALSE, series_type |-> series_type, path |-> path, doctor |-> doctor]

\* _create_series: None for an empty path, else a Series
create_series(series_desc, path) ==
    IF path = <<>> THEN NoneObj ELSE Series(series_desc, path)

\* _create_mask: None for an empty path (here: an empty list), else a Mask
create_mask(series_desc, path, doctor) ==
    IF path = <<>> THEN NoneObj ELSE Mask(series_desc, path, doctor)

(***************************************************************************)
(* Ordered dictionaries                                                    *)
(***************************************************************************)
DictKeys(d) == [i \in 1..Len(d) |-> d[i].key]

DictValues(d) == [i \in 1..Len(d) |-> d[i].value]

DictHas(d, k) == \E i \in 1..Len(d) : d[i].key = k

DictGet(d, k) == d[CHOOSE i \in 1..Len(d) : d[i].key = k].value

\* d[k] = v : in place for an existing key, appended otherwise
DictSet(d, k, v) ==
    IF DictHas(d, k)
    THEN [i \in 1..Len(d) |-> IF d[i].key = k THEN [key |-> k, value |-> v] ELSE d[i]]
    ELSE Append(d, [key |-> k, value |-> v])

(***************************************************************************)
(* File selection                                                          *)
(***************************************************************************)
\* _check_exception_words: FALSE iff the name contains one of the words
check_exception_words(file_name, exceptions) ==
    IF exceptions.none THEN TRUE
    ELSE \A i \in 1..Len(exceptions.words) :
            ~ Contains(exceptions.words[i], file_name)

\* os.path.join(folder, file) for every file of a list
JoinAll(folder, files) == [i \in 1..Len(files) |-> Append(folder, files[i])]

\* the first list comprehension of _select_files
FullMatchFiles(series_desc, listing, ext, exceptions) ==
    SelectSeq(listing, LAMBDA file :
        /\ Lower(file) = Lower(series_desc) \o ext
        /\ check_exception_words(file, exceptions))

\* the second list comprehension of _select_files
ExtensionFiles(listing, ext, exceptions) ==
    SelectSeq(listing, LAMBDA file :
        /\ Contains(ext, file)
        /\ check_exception_words(file, exceptions))

\* the condition of the second `if` of _select_files
UsesPermissiveRule(full_match, try_full_match, result) ==
    \/ (~ full_match /\ try_full_match = FALSE)
    \/ (try_full_match /\ Len(result) = 0)

\* _select_files; `listing` is os.listdir(folder)
select_files(series_desc, folder, listing, ext, exceptions, full_match, try_full_match) ==
    LET result == IF full_match \/ try_full_match
                  THEN JoinAll(folder, FullMatchFiles(series_desc, listing, ext, exceptions))
                  ELSE <<>>
    IN  IF UsesPermissiveRule(full_match, try_full_match, result)
        THEN JoinAll(folder, ExtensionFiles(listing, ext, exceptions))
        ELSE result

(***************************************************************************)
(* The directory tree                                                      *)
(***************************************************************************)
\* a regular file
File(name) == [name |-> name, isdir |-> FALSE, children |-> <<>>]

\* a directory and its os.listdir order
Dir(name, children) == [name |-> name, isdir |-> TRUE, children |-> children]

\* os.listdir: the names of the entries
Listing(entries) == [i \in 1..Len(entries) |-> entries[i].name]

F_adc == ADC \o file_extension

F_ADC == <<"A","D","C">> \o file_extension

F_adc_x == <<"a","d","c","_","x">> \o file_extension

F_dwi == DWI \o file_extension

F_notes == <<"n","o","t","e","s",".","t","x","t">>

\* series folders: one ADC folder with an exact match and an extra file, one DWI folder
SeriesPlain ==
    << Dir(<<"A","D","C">>, <<File(F_adc), File(F_adc_x), File(F_notes)>>),
       Dir(<<"D","W","I">>, <<File(F_dwi)>>) >>

\* two folders whose names contain 'adc'
SeriesTwoFolders ==
    << Dir(<<"A","D","C","_","p","r","e">>, <<File(F_adc)>>),
       Dir(<<"A","D","C","_","p","o","s","t">>, <<File(F_adc_x)>>),
       Dir(<<"D","W","I">>, <<File(F_dwi)>>) >>

\* an ADC folder without an exact match, and no DWI folder
SeriesNoExact ==
    << Dir(<<"A","D","C">>, <<File(F_adc_x), File(F_ADC \o <<".","b","a","k">>)>>) >>

\* one masks folder: a doctor with two exact names, an empty doctor, a loose file
MasksOne ==
    << Dir(<<"M","A","S","K","S">>,
           << Dir(<<"d","r","A">>, <<File(F_adc), File(F_ADC), File(F_dwi)>>),
              File(F_adc),
              Dir(<<"d","r","B">>, <<>>) >>) >>

\* two folders whose names contain 'masks'
MasksTwo ==
    << Dir(<<"M","A","S","K","S">>, << Dir(<<"d","r","A">>, <<File(F_adc)>>) >>),
       Dir(<<"o","l","d","_","m","a","s","k","s">>, << Dir(<<"d","r","C">>, <<File(F_dwi)>>) >>) >>

\* no folder whose name contains 'masks'
MasksNone == <<>>

\* a masks folder without doctor subfolders
MasksNoDoctors == << Dir(<<"M","a","s","k","s">>, <<File(F_adc)>>) >>

\* the patient directories the model draws from
Roots ==
    { SeriesPlain \o MasksOne,
      SeriesTwoFolders \o MasksOne,
      SeriesPlain \o MasksTwo,
      SeriesPlain \o MasksNone,
      SeriesTwoFolders \o MasksNone,
      SeriesNoExact \o MasksNoDoctors }

\* the directory of the second patient: one exact file per folder
OtherRoot ==
    << Dir(<<"m","a","s","k","s">>, << Dir(<<"d","r","Z">>, <<File(F_ADC)>>) >>),
       Dir(<<"a","d","c">>, <<File(F_ADC)>>) >>

\* the series_list arguments callers pass
SeriesLists == {<<ADC>>, <<ADC, DWI>>}

\* the keyword configurations callers pass to fetch_series
SeriesKwargs ==
    { DefaultKwargs, series_config, [DefaultKwargs EXCEPT !.warnings = FALSE] }

\* the keyword configurations callers pass to fetch_masks
MasksKwargs == { DefaultKwargs, mask_config }

\* every directory of the model
AllRoots == Roots \cup {OtherRoot}

\* every kind a call discovers
Kinds == UNION {Range(sl) : sl \in SeriesLists} \cup Range(series_to_fetch)

\* every keyword configuration a call discovers with
AllKwargs == SeriesKwargs \cup MasksKwargs \cup {mask_config, series_config}

(***************************************************************************)
(* State                                                                   *)
(***************************************************************************)
Patients == {"p1", "p2"}

VARIABLES
    fs,        \* fs[p]: the entries of patient p's directory, in os.listdir order
    images,    \* the class attribute Patient.images
    masks,     \* the class attribute Patient.masks
    warnings,  \* the lines appended to warnings.txt
    last,      \* the last public call: its arguments, fault and return value
    sel,       \* a direct use of _select_files: its arguments, stage and results
    patients,  \* the class attribute DatasetDiscover.patients
    handed     \* handed[d]: the ids passed to fetch_patients of dataset object d so far

vars == <<fs, images, masks, warnings, last, sel, patients, handed>>

\* self.path of patient p (an absolute path, as the class docstring requires)
PathOf(p) == <<p>>

\* p.images: no method ever assigns the instance attribute, so the lookup
\* resolves to the class attribute
ImagesOf(p) == images

\* p.masks: resolves to the class attribute in the same way
MasksOf(p) == masks

\* an exception propagating out of a call, or "none"
NoFault == "none"

Ok(value) == [fault |-> NoFault, value |-> value]

Raise(fault) == [fault |-> fault, value |-> <<>>]

(***************************************************************************)
(* Discovery of one kind                                                   *)
(***************************************************************************)
\* folder_list of _fetch_single_series: entries whose name contains the kind
SeriesFolders(root, series_desc) ==
    SelectSeq(root, LAMBDA e : Contains(Lower(series_desc), Lower(e.name)))

\* the call made when more than one folder qualifies: self.write_warning,
\* a name the class does not define (its method is _write_warning)
MultipleSeriesFolders(p, series_desc, folder_list) == Raise("AttributeError")

\* _fetch_single_series
fetch_single_series(p, root, series_desc, kw) ==
    LET folder_list == SeriesFolders(root, series_desc)
        file_list ==
            Flatten([i \in 1..Len(folder_list) |->
                select_files(series_desc,
                             Append(PathOf(p), folder_list[i].name),
                             Listing(folder_list[i].children),
                             file_extension, kw.exceptions,
                             kw.full_match, kw.try_full_match)])
        series_list ==
            [i \in 1..Len(file_list) |-> create_series(series_desc, file_list[i])]
    IN  IF Len(folder_list) > 1 /\ kw.warnings
        THEN MultipleSeriesFolders(p, series_desc, folder_list)
        ELSE IF \E i \in 1..Len(folder_list) : ~ folder_list[i].isdir
        THEN Raise("NotADirectoryError")
        ELSE Ok(series_list)

\* masks_folder_list of _fetch_single_mask
MasksFolders(root) ==
    SelectSeq(root, LAMBDA e : Contains(Lower(<<"m","a","s","k","s">>), Lower(e.name)))

\* the branch taken when more than one masks folder exists: its message
\* reads mask_folder_list, a name that is not bound (the list is
\* masks_folder_list)
MultipleMasksFolders(masks_folder_list) == Raise("NameError")

\* the Mask objects of one doctor: one _create_mask call on the doctor's file list
DoctorMasks(series_desc, path, doctor) ==
    << create_mask(series_desc, path, doctor) >>

\* _fetch_single_mask from the chosen masks folder on
MasksOfFolder(p, mask_folder, series_desc, kw) ==
    LET mask_folder_path == Append(PathOf(p), mask_folder.name)
        doctors_list == SelectSeq(mask_folder.children, LAMBDA e : e.isdir)
        file_dict ==
            [i \in 1..Len(doctors_list) |->
                select_files(series_desc,
                             Append(mask_folder_path, doctors_list[i].name),
                             Listing(doctors_list[i].children),
                             file_extension, kw.exceptions,
                             kw.full_match, kw.try_full_match)]
    IN  [i \in 1..Len(doctors_list) |->
            [key |-> doctors_list[i].name,
             value |-> DoctorMasks(series_desc, file_dict[i], doctors_list[i].name)]]

\* _fetch_single_mask
fetch_single_mask(p, root, series_desc, kw) ==
    LET masks_folder_list == MasksFolders(root)
    IN  IF Len(masks_folder_list) > 1
        THEN MultipleMasksFolders(masks_folder_list)
        ELSE IF Len(masks_folder_list) = 0
        THEN Raise("IndexError")
        ELSE IF ~ masks_folder_list[1].isdir
        THEN Raise("NotADirectoryError")
        ELSE Ok(MasksOfFolder(p, masks_folder_list[1], series_desc, kw))

(***************************************************************************)
(* fetch_series, fetch_masks, fetch_all                                    *)
(* A store st is [images, masks, warnings]; a call returns the fault, the  *)
(* return value and the store it leaves (a fault keeps the assignments     *)
(* made before it).                                                        *)
(***************************************************************************)
Store(im, ms, ws) == [images |-> im, masks |-> ms, warnings |-> ws]

Done(fault, value, st) == [fault |-> fault, value |-> value, st |-> st]

\* the result of every _fetch_single_series call the model makes, computed once
SingleSeries ==
    [p \in Patients, root \in AllRoots, series_desc \in Kinds, kw \in AllKwargs |->
        fetch_single_series(p, root, series_desc, kw)]

\* the result of every _fetch_single_mask call the model makes, computed once
SingleMask ==
    [p \in Patients, root \in AllRoots, series_desc \in Kinds, kw \in AllKwargs |->
        fetch_single_mask(p, root, series_desc, kw)]

\* the element of a one-element set; {e(r) : r \in {first}} evaluates `first`
\* once and hands its value r to e, as one statement follows another
Only(S) == CHOOSE out \in S : TRUE

\* an assignment that extends the entries a kind already has
ExtendKind(index, ser_desc, found) ==
    IF DictHas(index, ser_desc)
    THEN DictSet(index, ser_desc, DictGet(index, ser_desc) \o found)
    ELSE DictSet(index, ser_desc, found)

\* self.images[ser_desc] = ... and self.masks[ser_desc] = ...
AssignKind(index, ser_desc, found) == DictSet(index, ser_desc, found)

\* the loop of fetch_series
RECURSIVE fetch_series(_, _, _, _, _)
fetch_series(p, root, series_list, kw, st) ==
    IF series_list = <<>>
    THEN Done(NoFault, st.images, st)
    ELSE Only({ IF r.fault # NoFault
                THEN Done(r.fault, <<>>, st)
                ELSE Only({ fetch_series(p, root, Tail(series_list), kw, next) :
                            next \in {[st EXCEPT !.images =
                                         AssignKind(st.images, Head(series_list), r.value)]} })
                : r \in {SingleSeries[p, root, Head(series_list), kw]} })

\* the loop of fetch_masks
RECURSIVE fetch_masks(_, _, _, _, _)
fetch_masks(p, root, series_list, kw, st) ==
    IF series_list = <<>>
    THEN Done(NoFault, st.masks, st)
    ELSE Only({ IF r.fault # NoFault
                THEN Done(r.fault, <<>>, st)
                ELSE Only({ fetch_masks(p, root, Tail(series_list), kw, next) :
                            next \in {[st EXCEPT !.masks =
                                         AssignKind(st.masks, Head(series_list), r.value)]} })
                : r \in {SingleMask[p, root, Head(series_list), kw]} })

\* fetch_all: masks first, then series
fetch_all(p, root, series_list, mcfg, scfg, st) ==
    Only({ IF m.fault # NoFault THEN m
           ELSE Only({ IF s.fault # NoFault THEN s
                       ELSE Done(NoFault, [masks |-> m.value, series |-> s.value], s.st)
                       : s \in {fetch_series(p, root, series_list, scfg, m.st)} })
           : m \in {fetch_masks(p, root, series_list, mcfg, st)} })

\* a fetch_all call that discovers the series with the masks' configuration
RepopulateOneConfig(p, root, st) ==
    fetch_all(p, root, series_to_fetch, mask_config, mask_config, st)

\* the fetch_all call that opens the aggregate queries
Repopulate(p, root, st) ==
    fetch_all(p, root, series_to_fetch, mask_config, series_config, st)

(***************************************************************************)
(* Aggregate queries                                                       *)
(***************************************************************************)
SERIES_TYPE == <<"s","e","r","i","e","s","_","t","y","p","e">>

DOCTOR == <<"d","o","c","t","o","r">>

\* {key: 0 for key in keys}
ZeroCount(keys) == [i \in 1..Len(keys) |-> [key |-> keys[i], value |-> 0]]

\* count[k] += 1 for every k of keys, in order; KeyError on a missing key
RECURSIVE Tally(_, _)
Tally(count, keys) ==
    IF keys = <<>> THEN Ok(count)
    ELSE IF ~ DictHas(count, Head(keys)) THEN Raise("KeyError")
    ELSE Tally(DictSet(count, Head(keys), DictGet(count, Head(keys)) + 1), Tail(keys))

\* every non-None mask of the mask index, in the order of the nested loops
AllMasks(ms) ==
    SelectSeq(Flatten(Flatten([i \in 1..Len(ms) |-> DictValues(ms[i].value)])),
              LAMBDA m : ~ m.none)

\* every non-None series of the series index, in the order of the nested loops
AllSeries(im) ==
    SelectSeq(Flatten(DictValues(im)), LAMBDA x : ~ x.none)

\* count_masks_per after its fetch_all call
CountMasks(count_type, ms) ==
    LET found == AllMasks(ms)
    IN  IF Lower(count_type) = SERIES_TYPE
        THEN Tally(ZeroCount(DictKeys(ms)),
                   [i \in 1..Len(found) |-> found[i].series_type])
        ELSE IF Lower(count_type) = DOCTOR
        THEN Tally(ZeroCount(DictKeys(ms[1].value)),
                   [i \in 1..Len(found) |-> found[i].doctor])
        ELSE Raise("Invalid count_type")

\* count_masks_per
count_masks_per(p, root, count_type, st) ==
    Only({ IF f.fault # NoFault THEN Done(f.fault, <<>>, f.st)
           ELSE Only({ Done(c.fault, c.value, f.st) :
                       c \in {CountMasks(count_type, f.st.masks)} })
           : f \in {Repopulate(p, root, st)} })

\* {**a, **b}
RECURSIVE Merge(_, _)
Merge(a, b) ==
    IF b = <<>> THEN a
    ELSE Merge(DictSet(a, Head(b).key, Head(b).value), Tail(b))

\* count_masks_overall
count_masks_overall(p, root, st) ==
    Only({ IF type_count.fault # NoFault THEN type_count
           ELSE Only({ IF doctor_count.fault # NoFault THEN doctor_count
                       ELSE Done(NoFault, Merge(type_count.value, doctor_count.value),
                                 doctor_count.st)
                       : doctor_count \in {count_masks_per(p, root, DOCTOR, type_count.st)} })
           : type_count \in {count_masks_per(p, root, SERIES_TYPE, st)} })

\* count_series_per_type after its fetch_all call
CountSeries(im) ==
    LET found == AllSeries(im)
    IN  Tally(ZeroCount(DictKeys(im)), [i \in 1..Len(found) |-> found[i].series_type])

\* count_series_per_type
count_series_per_type(p, root, st) ==
    Only({ IF f.fault # NoFault THEN Done(f.fault, <<>>, f.st)
           ELSE Only({ Done(c.fault, c.value, f.st) : c \in {CountSeries(f.st.images)} })
           : f \in {Repopulate(p, root, st)} })

\* the warning lines get_series_types writes: one per kind with several series
MultipleSeriesWarnings(p, im) ==
    LET many == SelectSeq(im, LAMBDA e : Len(e.value) > 1)
    IN  [i \in 1..Len(many) |-> [patient |-> p, series_type |-> many[i].key]]

\* get_series_types: reads the index as it is
get_series_types(p, root, st) ==
    LET found == Flatten(DictValues(st.images))
    IN  Done(NoFault,
             {found[i].series_type : i \in 1..Len(found)},
             [st EXCEPT !.warnings = st.warnings \o MultipleSeriesWarnings(p, st.images)])

\* get_series_by_type
get_series_by_type(p, root, series_type, st) ==
    Only({ IF f.fault # NoFault THEN Done(f.fault, <<>>, f.st)
           ELSE IF ~ DictHas(f.st.images, series_type) THEN Done("KeyError", <<>>, f.st)
           ELSE Done(NoFault, DictGet(f.st.images, series_type), f.st)
           : f \in {Repopulate(p, root, st)} })

\* get_mask_list
get_mask_list(p, root, st) ==
    Only({ IF f.fault # NoFault THEN Done(f.fault, <<>>, f.st)
           ELSE Done(NoFault, AllMasks(f.st.masks), f.st)
           : f \in {Repopulate(p, root, st)} })

(***************************************************************************)
(* Inputs of the calls                                                     *)
(***************************************************************************)
\* the count_type arguments callers pass
CountTypes == {SERIES_TYPE, <<"D","o","c","t","o","r">>, <<"i","n","v","a","l","i","d">>}

\* the series_type arguments callers pass
SeriesTypes == {ADC, T2}

\* the warnings file may grow without bound; the model stops writing at MaxWarnings lines
MaxWarnings == 1

(***************************************************************************)
(* The state machine                                                       *)
(***************************************************************************)
Current == Store(images, masks, warnings)

\* some key of dictionary d holds another value in dictionary e
Replaced(d, e) ==
    \E i \in 1..Len(d) : DictHas(e, d[i].key) /\ DictGet(e, d[i].key) # d[i].value

\* the state a call leaves, and the record of the call
Leave(op, p, args, r) ==
    /\ images' = r.st.images
    /\ masks' = r.st.masks
    /\ warnings' = r.st.warnings
    /\ last' = [op |-> op, patient |-> p, args |-> args,
                fault |-> r.fault, value |-> r.value,
                replaced |-> Replaced(images, r.st.images) \/ Replaced(masks, r.st.masks),
                again |-> /\ op \in {"fetch_series", "fetch_masks"}
                          /\ last.op = op /\ last.patient = p /\ last.args = args]
    /\ UNCHANGED <<fs, sel, patients, handed>>

\* no direct use of _select_files in progress
SelIdle ==
    [stage |-> "idle", listing |-> <<>>, first |-> NoExceptions, second |-> NoExceptions,
     full_match |-> FALSE, try_full_match |-> FALSE, result |-> <<>>, kept |-> <<>>]

NoArgs == [series_list |-> <<>>, kw |-> DefaultKwargs, word |-> <<>>]

\* the DatasetDiscover objects of the model
Datasets == {"d1", "d2"}

\* no fetch_patients call has been made
NoneHanded == [d \in Datasets |-> {}]

Init ==
    /\ \E root \in Roots : fs = [p \in Patients |-> IF p = "p1" THEN root ELSE OtherRoot]
    /\ images = <<>>
    /\ masks = <<>>
    /\ warnings = <<>>
    /\ last = [op |-> "init", patient |-> "p1", args |-> NoArgs,
               fault |-> NoFault, value |-> <<>>, replaced |-> FALSE, again |-> FALSE]
    /\ sel = SelIdle
    /\ patients = <<>>
    /\ handed = NoneHanded

FetchSeries(p, series_list, kw) ==
    \E r \in {fetch_series(p, fs[p], series_list, kw, Current)} :
        Leave("fetch_series", p, [NoArgs EXCEPT !.series_list = series_list, !.kw = kw], r)

FetchMasks(p, series_list, kw) ==
    \E r \in {fetch_masks(p, fs[p], series_list, kw, Current)} :
        Leave("fetch_masks", p, [NoArgs EXCEPT !.series_list = series_list, !.kw = kw], r)

FetchAll(p, series_list) ==
    \E r \in {fetch_all(p, fs[p], series_list, mask_config, series_config, Current)} :
        Leave("fetch_all", p, [NoArgs EXCEPT !.series_list = series_list], r)

CountMasksPer(p, count_type) ==
    \E r \in {count_masks_per(p, fs[p], count_type, Current)} :
        Leave("count_masks_per", p, [NoArgs EXCEPT !.word = count_type], r)

CountMasksOverall(p) ==
    \E r \in {count_masks_overall(p, fs[p], Current)} :
        Leave("count_masks_overall", p, NoArgs, r)

CountSeriesPerType(p) ==
    \E r \in {count_series_per_type(p, fs[p], Current)} :
        Leave("count_series_per_type", p, NoArgs, r)

GetSeriesTypes(p) ==
    /\ Len(warnings) < MaxWarnings
    /\ \E r \in {get_series_types(p, fs[p], Current)} :
        Leave("get_series_types", p, NoArgs, r)

GetSeriesByType(p, series_type) ==
    \E r \in {get_series_by_type(p, fs[p], series_type, Current)} :
        Leave("get_series_by_type", p, [NoArgs EXCEPT !.word = series_type], r)

GetMaskList(p) ==
    \E r \in {get_mask_list(p, fs[p], Current)} :
        Leave("get_mask_list", p, NoArgs, r)

Next ==
    \E p \in Patients :
        \/ \E sl \in SeriesLists, kw \in SeriesKwargs : FetchSeries(p, sl, kw)
        \/ \E sl \in SeriesLists, kw \in MasksKwargs : FetchMasks(p, sl, kw)
        \/ \E sl \in SeriesLists : FetchAll(p, sl)
        \/ \E ct \in CountTypes : CountMasksPer(p, ct)
        \/ CountMasksOverall(p)
        \/ CountSeriesPerType(p)
        \/ GetSeriesTypes(p)
        \/ \E t \in SeriesTypes : GetSeriesByType(p, t)
        \/ GetMaskList(p)

Spec == Init /\ [][Next]_vars

(***************************************************************************)
(* _select_files on its own: a caller selects with one exception list and  *)
(* then drops, from the result, the names that contain a word of a second  *)
(* list.                                                                   *)
(***************************************************************************)
\* the folder contents the selection is tried on
Listings ==
    { <<>>, <<F_adc>>, <<F_adc_x>>, <<F_adc, F_adc_x>>, <<F_adc_x, F_notes>>,
      <<F_ADC, F_adc_x, F_notes>>, <<F_adc, F_ADC>> }

\* the exception lists the selection is tried with
ExceptionLists ==
    { NoExceptions, Exc(<<>>), Exc(<<<<"a","d","c",".">>>>), Exc(<<<<"_","x">>>>), Exc(<<<<"A","D","C">>, <<"_","x">>>>) }

\* the folder the selection runs in
SelFolder == <<"p1", <<"A","D","C">>>>

\* the exception list holding the words of both lists
BothLists(a, b) ==
    IF a.none /\ b.none THEN NoExceptions ELSE Exc(a.words \o b.words)

\* the paths of a result whose file name passes _check_exception_words
DropExcepted(paths, exceptions) ==
    SelectSeq(paths, LAMBDA path : check_exception_words(path[Len(path)], exceptions))

InitSelect ==
    /\ fs = [p \in Patients |-> OtherRoot]
    /\ images = <<>>
    /\ masks = <<>>
    /\ warnings = <<>>
    /\ last = [op |-> "init", patient |-> "p1", args |-> NoArgs,
               fault |-> NoFault, value |-> <<>>, replaced |-> FALSE, again |-> FALSE]
    /\ patients = <<>>
    /\ handed = NoneHanded
    /\ \E l \in Listings, a \in ExceptionLists, b \in ExceptionLists,
          fm \in BOOLEAN, tfm \in BOOLEAN :
          sel = [SelIdle EXCEPT !.stage = "input", !.listing = l, !.first = a,
                                !.second = b, !.full_match = fm, !.try_full_match = tfm]

\* the call of _select_files with the first exception list
SelectFirst ==
    /\ sel.stage = "input"
    /\ sel' = [sel EXCEPT !.stage = "selected",
                          !.result = select_files(ADC, SelFolder, sel.listing,
                                                  file_extension, sel.first,
                                                  sel.full_match, sel.try_full_match)]
    /\ UNCHANGED <<fs, images, masks, warnings, last, patients, handed>>

\* the caller drops the names that contain a word of the second list
DropSecond ==
    /\ sel.stage = "selected"
    /\ sel' = [sel EXCEPT !.stage = "dropped",
                          !.kept = DropExcepted(sel.result, sel.second)]
    /\ UNCHANGED <<fs, images, masks, warnings, last, patients, handed>>

NextSelect == SelectFirst \/ DropSecond

SelectSpec == InitSelect /\ [][NextSelect]_vars

(***************************************************************************)
(* DatasetDiscover                                                         *)
(***************************************************************************)
\* the ids callers ask for; no directory is named p3
PatientIds == {"p1", "p2", "p3"}

\* the patient_id_list arguments callers pass
IdLists == { <<"p1">>, <<"p2", "p3">>, <<"p3", "p1">> }

\* self.root of dataset object d
RootOf(d) == <<d>>

\* the entries under the root of dataset object d: d1 holds the directory of
\* p1 and a regular file named p3, d2 holds the directory of p2
DatasetTree(d) ==
    IF d = "d1" THEN << Dir("p1", fs["p1"]), File("p3") >>
    ELSE << Dir("p2", fs["p2"]) >>

\* os.path.isdir(os.path.join(root, name))
IsDir(entries, name) ==
    \E i \in 1..Len(entries) : entries[i].name = name /\ entries[i].isdir

\* Patient(patient_id, patient_path): the constructor stores its arguments and
\* creates the warnings and logs files without writing a line
Patient(patient_id, patient_path) ==
    [patient_id |-> patient_id, path |-> patient_path]

\* d.patients: no method ever assigns the instance attribute, so the lookup
\* resolves to the class attribute
PatientsOf(d) == patients

\* the loop of fetch_patients over the ids, writing into the map pts
RECURSIVE fetch_patients(_, _, _)
fetch_patients(d, patient_id_list, pts) ==
    IF patient_id_list = <<>>
    THEN pts
    ELSE LET patient_id == Head(patient_id_list)
             patient_path == Append(RootOf(d), patient_id)
         IN  IF ~ IsDir(DatasetTree(d), patient_id)
             THEN fetch_patients(d, Tail(patient_id_list), pts)
             ELSE fetch_patients(d, Tail(patient_id_list),
                                 DictSet(pts, patient_id,
                                         Patient(patient_id, patient_path)))

\* d.fetch_patients(ids, modalities): `last.patient` holds the receiver d and
\* `last.args.series_list` the ids; the value is the returned map
FetchPatients(d, ids) ==
    \E r \in {fetch_patients(d, ids, PatientsOf(d))} :
        /\ patients' = r
        /\ handed' = [handed EXCEPT ![d] = @ \cup Range(ids)]
        /\ last' = [op |-> "fetch_patients", patient |-> d,
                    args |-> [NoArgs EXCEPT !.series_list = ids],
                    fault |-> NoFault, value |-> r, replaced |-> FALSE,
                    again |-> FALSE]
        /\ UNCHANGED <<fs, images, masks, warnings, sel>>

\* dataset objects collect patients while Patient objects discover
NextDataset ==
    \/ \E d \in Datasets, ids \in IdLists : FetchPatients(d, ids)
    \/ \E p \in Patients, sl \in SeriesLists : FetchAll(p, sl)

DatasetSpec == Init /\ [][NextDataset]_vars

(***************************************************************************)
(* Properties                                                              *)
(***************************************************************************)
\* every path held by the entries of p's two indices lies under p's directory
NoForeignEntry(p) ==
    /\ \A i \in 1..Len(ImagesOf(p)) : \A j \in 1..Len(ImagesOf(p)[i].value) :
          LET e == ImagesOf(p)[i].value[j] IN e.none \/ e.path[1] = p
    /\ \A i \in 1..Len(MasksOf(p)) : \A d \in 1..Len(MasksOf(p)[i].value) :
          \A j \in 1..Len(MasksOf(p)[i].value[d].value) :
             LET e == MasksOf(p)[i].value[d].value[j]
             IN  e.none \/ \A k \in 1..Len(e.path) : e.path[k][1] = p

\* C1: a discovery call or an aggregate query on patient a leaves the series
\* index and the mask index of every other patient b unchanged, and b's
\* indices never hold an entry discovered for a.
C1_PatientsOwnTheirIndices ==
    [][\A a \in Patients : \A b \in Patients \ {a} :
          last'.patient = a =>
             /\ ImagesOf(b)' = ImagesOf(b)
             /\ MasksOf(b)' = MasksOf(b)
             /\ NoForeignEntry(b)']_vars

\* the aggregate queries that open with fetch_all
RepopulatingQueries ==
    {"count_series_per_type", "count_masks_per", "count_masks_overall",
     "get_series_by_type", "get_mask_list"}

\* all six aggregate queries
AggregateQueries == RepopulatingQueries \cup {"get_series_types"}

\* both indices hold, for every default kind, the default-configuration
\* discovery of patient p's directory
DefaultIndices(p) ==
    \A i \in 1..Len(series_to_fetch) :
       LET kind == series_to_fetch[i]
       IN  /\ DictHas(images, kind)
           /\ DictGet(images, kind) = fetch_single_series(p, fs[p], kind, series_config).value
           /\ DictHas(masks, kind)
           /\ DictGet(masks, kind) = fetch_single_mask(p, fs[p], kind, mask_config).value

\* the kinds of the series index that hold at least one series
TypesPresent(im) ==
    {im[i].key : i \in {j \in 1..Len(im) : im[j].value # <<>>}}

\* the answer of a returned query, computed from the indices as they stand
AnswerFromIndices(call) ==
    CASE call.op = "count_series_per_type" -> CountSeries(images).value
      [] call.op = "count_masks_per" -> CountMasks(call.args.word, masks).value
      [] call.op = "count_masks_overall" ->
            Merge(CountMasks(SERIES_TYPE, masks).value, CountMasks(DOCTOR, masks).value)
      [] call.op = "get_series_by_type" -> DictGet(images, call.args.word)
      [] call.op = "get_mask_list" -> AllMasks(masks)
      [] call.op = "get_series_types" -> TypesPresent(images)

\* C2 (as stated): when any of the six aggregate queries returns, both indices
\* hold the default-configuration discovery for every default kind and the
\* answer is computed from them.
C2_EveryQueryRepopulates ==
    (last.op \in AggregateQueries /\ last.fault = NoFault) =>
        /\ DefaultIndices(last.patient)
        /\ last.value = AnswerFromIndices(last)

\* C2 (amended): when a query that opens with fetch_all returns
\* (count_series_per_type, count_masks_per, count_masks_overall,
\* get_series_by_type, get_mask_list), both indices hold the
\* default-configuration discovery for every default kind and the answer is
\* computed from them; get_series_types replaces nothing and answers from the
\* series index as it stands.
C2_FetchingQueriesRepopulate ==
    /\ (last.op \in RepopulatingQueries /\ last.fault = NoFault) =>
          /\ DefaultIndices(last.patient)
          /\ last.value = AnswerFromIndices(last)
    /\ last.op = "get_series_types" =>
          /\ last.fault = NoFault
          /\ ~ last.replaced
          /\ last.value = AnswerFromIndices(last)

\* C2 witness: get_series_by_type('adc') returned, replaced an index value
\* held before the call, and its answer is the try-full-match result, which
\* differs from what discovery with neither flag gives.
C2_CustomResultOverwritten ==
    /\ last.op = "get_series_by_type"
    /\ last.args.word = ADC
    /\ last.fault = NoFault
    /\ last.replaced
    /\ last.value = fetch_single_series(last.patient, fs[last.patient], ADC, series_config).value
    /\ last.value # fetch_single_series(last.patient, fs[last.patient], ADC, DefaultKwargs).value

\* C3: count_masks_per with a dimension other than 'series_type' or 'doctor'
\* (case-insensitive) fails with 'Invalid count_type' in every dataset state.
C3_InvalidDimensionIsConfigError ==
    (last.op = "count_masks_per" /\ Lower(last.args.word) \notin {SERIES_TYPE, DOCTOR}) =>
        last.fault = "Invalid count_type"

\* the series built from the files selected in each qualifying folder, in folder order
ConcatenatedSeries(p, kind, kw) ==
    LET folders == SeriesFolders(fs[p], kind)
        files == Flatten([i \in 1..Len(folders) |->
                    select_files(kind, Append(PathOf(p), folders[i].name),
                                 Listing(folders[i].children), file_extension,
                                 kw.exceptions, kw.full_match, kw.try_full_match)])
    IN  [i \in 1..Len(files) |-> Series(kind, files[i])]

\* the positions of a series_list whose kind has several qualifying folders
AmbiguousKinds(p, series_list) ==
    {i \in 1..Len(series_list) : Len(SeriesFolders(fs[p], series_list[i])) > 1}

\* C4: fetch_series (warnings on) for a kind with two or more qualifying
\* folders does not fail, stores the concatenation in folder order of the files
\* selected in each folder, and appends exactly one warning for that kind.
C4_SeveralSeriesFoldersAreConcatenated ==
    [][(/\ last'.op = "fetch_series"
        /\ last'.args.kw.warnings
        /\ AmbiguousKinds(last'.patient, last'.args.series_list) # {}) =>
          /\ last'.fault = NoFault
          /\ \A i \in AmbiguousKinds(last'.patient, last'.args.series_list) :
                /\ DictHas(images', last'.args.series_list[i])
                /\ DictGet(images', last'.args.series_list[i]) =
                      ConcatenatedSeries(last'.patient, last'.args.series_list[i],
                                         last'.args.kw)
          /\ Len(warnings') = Len(warnings)
                + Cardinality(AmbiguousKinds(last'.patient, last'.args.series_list))]_vars

\* C5: fetch_masks on a patient with more than one masks folder does not fail,
\* writes a diagnostic and stores, for every kind, the doctors and masks of the
\* first masks folder in listing order.
C5_SeveralMasksFoldersUseTheFirst ==
    [][(/\ last'.op = "fetch_masks"
        /\ Len(MasksFolders(fs[last'.patient])) > 1) =>
          /\ last'.fault = NoFault
          /\ \A i \in 1..Len(last'.args.series_list) :
                /\ DictHas(masks', last'.args.series_list[i])
                /\ DictGet(masks', last'.args.series_list[i]) =
                      MasksOfFolder(last'.patient, MasksFolders(fs[last'.patient])[1],
                                    last'.args.series_list[i], last'.args.kw)
          /\ Len(warnings') > Len(warnings)]_vars

\* C6: on a patient without a masks folder fetch_masks fails with the
\* missing-masks-folder fault (IndexError), and fetch_series succeeds and
\* stores for every kind what it stores when a masks folder is present.
C6_MissingMasksFolderOnlyStopsMasks ==
    MasksFolders(fs[last.patient]) = <<>> =>
        /\ last.op = "fetch_masks" => last.fault = "IndexError"
        /\ last.op = "fetch_series" =>
              /\ last.fault = NoFault
              /\ \A i \in 1..Len(last.args.series_list) :
                    /\ DictHas(images, last.args.series_list[i])
                    /\ DictGet(images, last.args.series_list[i]) =
                          fetch_single_series(last.patient, fs[last.patient] \o MasksOne,
                                              last.args.series_list[i], last.args.kw).value

\* a file name equal, in lower case, to lowercase(kind) + extension
IsExactName(kind, name) == Lower(name) = Lower(kind) \o file_extension

\* the file name of a path
BaseName(path) == path[Len(path)]

\* _select_files has returned
Selected == sel.stage \in {"selected", "dropped"}

\* C7: with full_match set, whatever try_full_match is, _select_files returns
\* only files whose lower-case name is lowercase(kind) + extension.
C7_FullMatchNeverFallsBack ==
    (Selected /\ sel.full_match) =>
        \A i \in 1..Len(sel.result) : IsExactName(ADC, BaseName(sel.result[i]))

\* C8: under try_full_match, when the folder holds a file whose lower-case
\* name is lowercase(kind) + extension, _select_files returns only such files,
\* for every exception list.
C8_TryFullMatchKeepsToExactFiles ==
    (/\ Selected
     /\ sel.try_full_match
     /\ \E i \in 1..Len(sel.listing) : IsExactName(ADC, sel.listing[i])) =>
        \A i \in 1..Len(sel.result) : IsExactName(ADC, BaseName(sel.result[i]))

\* C9: in every mode, selecting with list X and then dropping the names that
\* contain a word of list Y gives the files of one selection with the words of
\* both, and the files of selecting with Y and then dropping by X.
C9_ExceptionFilteringComposes ==
    sel.stage = "dropped" =>
        /\ sel.kept = select_files(ADC, SelFolder, sel.listing, file_extension,
                                   BothLists(sel.first, sel.second),
                                   sel.full_match, sel.try_full_match)
        /\ sel.kept = DropExcepted(select_files(ADC, SelFolder, sel.listing, file_extension,
                                                sel.second, sel.full_match,
                                                sel.try_full_match),
                                   sel.first)

\* C10: after fetch_masks, for every kind and doctor the mask index holds one
\* Mask per file selected in the doctor's subfolder (none for no file), each
\* with that one path (alone, or as the only element of its path list) and
\* that doctor.
C10_OneMaskPerSelectedFile ==
    (last.op = "fetch_masks" /\ last.fault = NoFault) =>
        \A i \in 1..Len(last.args.series_list) :
           LET kind == last.args.series_list[i]
               folder == MasksFolders(fs[last.patient])[1]
               doctors == SelectSeq(folder.children, LAMBDA e : e.isdir)
           IN  \A d \in 1..Len(doctors) :
                  LET files == select_files(kind,
                                   <<last.patient, folder.name, doctors[d].name>>,
                                   Listing(doctors[d].children), file_extension,
                                   last.args.kw.exceptions, last.args.kw.full_match,
                                   last.args.kw.try_full_match)
                      entries == DictGet(DictGet(masks, kind), doctors[d].name)
                  IN  /\ Len(entries) = Len(files)
                      /\ \A j \in 1..Len(files) :
                            \/ entries[j] = Mask(kind, files[j], doctors[d].name)
                            \/ entries[j] = Mask(kind, <<files[j]>>, doctors[d].name)

\* the ids of the Patient objects in the map of dataset object d
IdsOf(d) == Range(DictKeys(PatientsOf(d)))

\* C11: after any sequence of fetch_patients calls on the dataset objects, the
\* map of each object holds a Patient only for ids that were passed to that
\* object and whose subdirectory exists under its root; an id without a
\* subdirectory is skipped without error; and a fetch_patients call changes
\* neither the series index nor the mask index.
C11_DatasetsHoldOnlyTheirPatients ==
    /\ [](\A d \in Datasets :
            \A id \in IdsOf(d) : id \in handed[d] /\ IsDir(DatasetTree(d), id))
    /\ [](last.op = "fetch_patients" => last.fault = NoFault)
    /\ [][last'.op = "fetch_patients" => images' = images /\ masks' = masks]_vars

\* the entry of a kind in an index: absent, or present with its value
EntryOf(index, kind) ==
    IF DictHas(index, kind) THEN <<DictGet(index, kind)>> ELSE <<>>

\* no folder of the directory that qualifies for the kind holds a file with
\* the extension
NothingToResolve(root, kind) ==
    \A i \in 1..Len(root) :
        Contains(Lower(kind), Lower(root[i].name)) =>
            \A j \in 1..Len(root[i].children) :
                ~ Contains(file_extension, root[i].children[j].name)

============================================================================
